---- MODULE Spec2Model ----
(***************************************************************************)
(* Model of src/background.js: the background script of a browser         *)
(* extension.  The installer (onInstalled listener) registers the          *)
(* repeating alarm "dailyCheck" for the next local noon and installs one   *)
(* dynamic header rule; the alarm handler (onAlarm listener) opens the     *)
(* dashboard tab when "dailyCheck" fires.                                  *)
(*                                                                         *)
(* Time is counted in whole hours since an epoch (UTC); the local time of  *)
(* an instant t is t + tz.  Days have constant length.  The host platform  *)
(* (alarm store, rule store, tab creation, event dispatch) is modelled by  *)
(* what the calls of the script do to it.                                  *)
(***************************************************************************)
EXTENDS Integers, Sequences, FiniteSets

VARIABLES clock,        \* host wall clock, hours since the epoch (UTC)
          tz,           \* local time zone offset in hours
          alarms,       \* host alarm store: set of alarm records
          rules,        \* host dynamic rule store: sequence of rule records
          tabs,         \* tabs created so far: sequence of [url, at]
          pending,      \* alarm events dispatched, listener not yet run
          lastEvent,    \* listener that ran in the last step, or "idle"
          lastInstall,  \* clock reads and result of getNextNoon in the last step
          calls,        \* host calls issued by the last listener invocation
          fired,        \* per alarm name, number of onAlarm invocations
          firstNow,     \* `now` of the first install event, or NotInstalled
          busyNoons,    \* local noons that fell inside an installer run
          faultsLeft    \* host call failures that may still happen

vars == <<clock, tz, alarms, rules, tabs, pending, lastEvent, lastInstall,
          calls, fired, firstNow, busyNoons, faultsLeft>>

----------------------------------------------------------------------------
(* Bounds of the model *)

MaxClock == 52          \* the clock stops advancing here
MaxReadGap == 1         \* hours that may pass between two clock reads
MaxFaults == 2          \* host call failures in one run of SpecFault

(* Program constants *)

RULE_ID == 1
NoonHour == 12
MinutesPerHour == 60
periodHalfDay == MinutesPerHour * NoonHour

periodInMinutes == 1440
HoursPerDay == 24

ALARM_NAME == "dailyCheck"
DashboardUrlNoAuto == "dashboard.html"

DashboardUrl == "dashboard.html?auto=true"
MOBILE_USER_AGENT == "iPhone"

(* Environment *)

StartClock == HoursPerDay
TimeZones == {0 - 5, 0, 9}
OtherNames == {"other", "DailyCheck"}
AlarmNames == {ALARM_NAME} \cup OtherNames
OTHER_RULE_ID == RULE_ID + 1
OLD_USER_AGENT == "old"
NotInstalled == 0 - 1
NoInstall == [now |-> NotInstalled, next |-> NotInstalled, when |-> NotInstalled]

----------------------------------------------------------------------------
(* Date arithmetic in local time *)

\* Date.prototype.setHours(h, 0, 0, 0): same local calendar day, local
\* hour h, smaller fields zero.
SetHours(t, h) == (((t + tz) \div HoursPerDay) * HoursPerDay + h) - tz

\* next.setDate(next.getDate() + 1): same local time on the next day.
SetDateNextDay(t) == t + HoursPerDay

GetNextNoonStrict(now, next0) ==
    LET next == SetHours(next0, NoonHour)
    IN  IF next < now THEN SetDateNextDay(next) ELSE next

GetNextNoonToday(now, next0) == SetHours(next0, NoonHour)

GetNextNoonAlwaysTomorrow(now, next0) ==
    SetDateNextDay(SetHours(next0, NoonHour))

\* getNextNoon: `now` and `next0` are the two values read from the clock
\* by the two `new Date()` expressions.
GetNextNoon(now, next0) ==
    LET next == SetHours(next0, NoonHour)
    IN  IF next <= now THEN SetDateNextDay(next) ELSE next

----------------------------------------------------------------------------
(* Host platform: what the three APIs called by the script do *)

\* Outcome of a host call: it takes effect, it is rejected after the call
\* returned, or the call itself throws into the listener.  For the last
\* call of a listener the two failures do not differ.
AlarmOutcomes == {"ok", "reject", "throw"}
CallOutcomes == {"ok", "reject"}

Call(api, outcome) == [api |-> api, outcome |-> outcome]

Alarm(name, when, period) ==
    [name |-> name, scheduledTime |-> when, periodInMinutes |-> period]

Rule(id, value) ==
    [id |-> id, priority |-> 1, header |-> "User-Agent", operation |-> "set",
     value |-> value, urlFilter |-> "m.search.naver.com"]

Tab(url, at) == [url |-> url, at |-> at]

\* chrome.alarms.create(name, info): an alarm of the same name is replaced.
AlarmsCreate(as, name, when, period) ==
    {a \in as : a.name # name} \cup {Alarm(name, when, period)}

InSeq(x, s) == \E i \in 1..Len(s) : s[i] = x

\* chrome.declarativeNetRequest.updateDynamicRules({removeRuleIds, addRules}):
\* one update that first removes the rules with the given ids, then adds.
UpdateDynamicRules(rs, removeRuleIds, addRules) ==
    LET Keep(r) == ~InSeq(r.id, removeRuleIds)
    IN  SelectSeq(rs, Keep) \o addRules

\* chrome.tabs.create({url}) at time `at`.
TabsCreate(ts, url, at) == Append(ts, Tab(url, at))

\* An alarm is due when its scheduled time has been reached.
Due(a) == a.scheduledTime <= clock

\* After firing, a repeating alarm is scheduled one period later.
Reschedule(as, a) ==
    (as \ {a}) \cup
        {Alarm(a.name, a.scheduledTime + (a.periodInMinutes \div MinutesPerHour),
               a.periodInMinutes)}

IsLocalNoon(t) == (t + tz) % HoursPerDay = NoonHour

----------------------------------------------------------------------------
(* The installer: chrome.runtime.onInstalled listener *)

RemoveNoRuleIds == << >>

RemoveEveryRuleId == <<RULE_ID, OTHER_RULE_ID>>

RemoveRuleIds == <<RULE_ID>>

AddRules == <<Rule(RULE_ID, MOBILE_USER_AGENT)>>

InstallerCallsRetry(ao, ro) ==
    IF ao = "ok"
    THEN <<Call("alarms.create", ao), Call("updateDynamicRules", ro)>>
    ELSE <<Call("alarms.create", ao), Call("alarms.create", "ok"),
           Call("updateDynamicRules", ro)>>

\* The host calls one run of the installer issues, in order, given the
\* outcome of each: setupDailyAlarm() comes first, and an exception thrown
\* by it ends the listener before updateDynamicRules is reached.
InstallerCalls(ao, ro) ==
    IF ao = "throw"
    THEN <<Call("alarms.create", ao)>>
    ELSE <<Call("alarms.create", ao), Call("updateDynamicRules", ro)>>

Failures(cs) == Len(SelectSeq(cs, LAMBDA c : c.outcome # "ok"))

Succeeded(cs, api) == InSeq(Call(api, "ok"), cs)

\* setupDailyAlarm(): chrome.alarms.create("dailyCheck", {when, period}).
SetupDailyAlarm(as, cs, when) ==
    IF Succeeded(cs, "alarms.create")
    THEN AlarmsCreate(as, ALARM_NAME, when, periodInMinutes)
    ELSE as

InstallRule(rs, cs) ==
    IF Succeeded(cs, "updateDynamicRules")
    THEN UpdateDynamicRules(rs, RemoveRuleIds, AddRules)
    ELSE rs

OnInstalled(gap, ao, ro) ==
    LET now  == clock
        next == clock + gap
        when == GetNextNoon(now, next)
        cs   == InstallerCalls(ao, ro)
    IN  /\ clock + gap <= MaxClock
        /\ Failures(cs) <= faultsLeft
        /\ faultsLeft' = faultsLeft - Failures(cs)
        /\ clock' = clock + gap
        /\ lastInstall' = [now |-> now, next |-> next, when |-> when]
        /\ calls' = cs
        /\ alarms' = SetupDailyAlarm(alarms, cs, when)
        /\ rules' = InstallRule(rules, cs)
        /\ lastEvent' = "install"
        /\ firstNow' = IF firstNow = NotInstalled THEN now ELSE firstNow
        /\ busyNoons' = busyNoons \cup {t \in now..next : IsLocalNoon(t)}
        /\ UNCHANGED <<tz, tabs, pending, fired>>

----------------------------------------------------------------------------
(* The alarm handler: chrome.alarms.onAlarm listener *)

IsDailyCheckPrefix(name) == name \in {"dailyCheck", "DailyCheck"}

IsDailyCheck(name) == name = "dailyCheck"

OnAlarmCalls(name, to) ==
    IF IsDailyCheck(name) THEN <<Call("tabs.create", to)>> ELSE << >>

OpenTabs(ts, cs) ==
    IF Succeeded(cs, "tabs.create") THEN TabsCreate(ts, DashboardUrl, clock) ELSE ts

\* The host runs the listener for the oldest dispatched alarm event.
OnAlarm(to) ==
    LET name == Head(pending)
        cs   == OnAlarmCalls(name, to)
    IN  /\ pending # << >>
        /\ Failures(cs) <= faultsLeft
        /\ faultsLeft' = faultsLeft - Failures(cs)
        /\ pending' = Tail(pending)
        /\ calls' = cs
        /\ tabs' = OpenTabs(tabs, cs)
        /\ fired' = [fired EXCEPT ![name] = @ + 1]
        /\ lastEvent' = "alarm"
        /\ lastInstall' = NoInstall
        /\ UNCHANGED <<clock, tz, alarms, rules, firstNow, busyNoons>>

----------------------------------------------------------------------------
(* The host: alarm scheduler and clock *)

\* A due alarm fires: its event is queued for the listener.
Dispatch ==
    \E a \in alarms :
        /\ Due(a)
        /\ pending' = Append(pending, a.name)
        /\ alarms' = Reschedule(alarms, a)
        /\ lastEvent' = "idle"
        /\ lastInstall' = NoInstall
        /\ calls' = << >>
        /\ UNCHANGED <<clock, tz, rules, tabs, fired, firstNow, busyNoons, faultsLeft>>

\* Time passes while no alarm is due and no event waits for its listener.
Tick ==
    /\ clock < MaxClock
    /\ pending = << >>
    /\ \A a \in alarms : ~Due(a)
    /\ clock' = clock + 1
    /\ lastEvent' = "idle"
    /\ lastInstall' = NoInstall
    /\ calls' = << >>
    /\ UNCHANGED <<tz, alarms, rules, tabs, pending, fired, firstNow, busyNoons,
                   faultsLeft>>

----------------------------------------------------------------------------
(* Initial states and specifications *)

OtherAlarms ==
    {Alarm("other", StartClock + NoonHour, periodInMinutes),
     Alarm("DailyCheck", StartClock + 2, periodInMinutes)}

OldAlarms == {Alarm(ALARM_NAME, StartClock + 1, periodHalfDay)}

\* Host state found by the first install event: nothing (fresh install),
\* or what other parts and an earlier version of the extension left there.
InitHost ==
    {[alarms |-> {}, rules |-> << >>],
     [alarms |-> OtherAlarms, rules |-> <<Rule(OTHER_RULE_ID, OLD_USER_AGENT)>>],
     [alarms |-> OldAlarms,
      rules |-> <<Rule(RULE_ID, OLD_USER_AGENT), Rule(OTHER_RULE_ID, OLD_USER_AGENT)>>]}

Start(faults, t0) ==
    /\ faultsLeft = faults
    /\ clock = t0
    /\ tz \in TimeZones
    /\ \E h \in InitHost : alarms = h.alarms /\ rules = h.rules
    /\ tabs = << >>
    /\ pending = << >>
    /\ lastEvent = "idle"
    /\ lastInstall = NoInstall
    /\ calls = << >>
    /\ fired = [n \in AlarmNames |-> 0]
    /\ firstNow = NotInstalled
    /\ busyNoons = {}

\* The host honours every call.
Init == Start(0, StartClock)

\* Host calls may fail; the run starts half a day later.
InitFault == Start(MaxFaults, StartClock + NoonHour)

Install ==
    \E gap \in 0..MaxReadGap : \E ao \in AlarmOutcomes : \E ro \in CallOutcomes :
        OnInstalled(gap, ao, ro)

AlarmFired == \E to \in CallOutcomes : OnAlarm(to)

Next == Install \/ AlarmFired \/ Dispatch \/ Tick

Spec == Init /\ [][Next]_vars

SpecFault == InitFault /\ [][Next]_vars

----------------------------------------------------------------------------
(* Properties *)

LocalDay(t) == (t + tz) \div HoursPerDay
LocalHour(t) == (t + tz) % HoursPerDay
Installed == firstNow # NotInstalled
Ran == lastInstall # NoInstall
DailyAlarms == {a \in alarms : a.name = "dailyCheck"}
FixedRules == SelectSeq(rules, LAMBDA r : r.id = 1)
OtherAlarmsOf(as) == {a \in as : a.name # "dailyCheck"}
OtherRulesOf(rs) == SelectSeq(rs, LAMBDA r : r.id # 1)
TabAt(n) == \E i \in 1..Len(tabs) : tabs[i].at = n
NoonsSinceInstall == {n \in (firstNow + 1)..(clock - 1) : Installed /\ LocalHour(n) = 12}

\* C1: when `now` is before local noon of its day, getNextNoon returns
\* 12:00 local of that same calendar day.
C1_BeforeNoonGivesTodayNoon ==
    (Ran /\ LocalHour(lastInstall.now) < 12)
        => /\ LocalDay(lastInstall.when) = LocalDay(lastInstall.now)
           /\ LocalHour(lastInstall.when) = 12

C1_Witness ==
    /\ Ran
    /\ LocalHour(lastInstall.now) = 11
    /\ lastInstall.next = lastInstall.now + 1
    /\ lastInstall.when = lastInstall.next

\* C2: when `now` is at or after local noon of its day (exactly noon
\* included), getNextNoon returns 12:00 local of the following calendar day.
C2_FromNoonGivesTomorrowNoon ==
    (Ran /\ LocalHour(lastInstall.now) >= 12)
        => /\ LocalDay(lastInstall.when) = LocalDay(lastInstall.now) + 1
           /\ LocalHour(lastInstall.when) = 12

C2_Witness ==
    /\ Ran
    /\ LocalHour(lastInstall.now) = 12
    /\ lastInstall.when = lastInstall.now + 24

\* C3: the rule store never holds two rules with identifier 1, and from the
\* first install on it holds exactly one, the rule the installer adds.
C3_OneFixedRule ==
    /\ Len(FixedRules) <= 1
    /\ Installed => /\ Len(FixedRules) = 1
                    /\ FixedRules[1].value = MOBILE_USER_AGENT

C3_Witness ==
    /\ lastEvent = "install"
    /\ firstNow < lastInstall.now
    /\ Len(rules) = 2
    /\ Len(FixedRules) = 1

\* C4: the number of tabs created equals the number of handler invocations
\* for the name "dailyCheck"; invocations for other names create none.
C4_TabIffDailyCheck == Len(tabs) = fired["dailyCheck"]

C4_Witness ==
    /\ fired["dailyCheck"] >= 1
    /\ fired["DailyCheck"] >= 1
    /\ fired["other"] >= 1
    /\ pending = << >>

\* C5: every tab created is opened at 'dashboard.html?auto=true'.
C5_TabUrl == \A i \in 1..Len(tabs) : tabs[i].url = "dashboard.html?auto=true"

C5_Witness == Len(tabs) >= 2 /\ Installed /\ faultsLeft = 0 /\ lastEvent = "alarm"

\* C6: from the first install on the host holds exactly one "dailyCheck"
\* alarm, with period 1440 and a fire time at 12:00 local; right after an
\* install its fire time is the first local noon after that install's `now`.
C6_OneDailyAlarmAtNoon ==
    Installed =>
        /\ Cardinality(DailyAlarms) = 1
        /\ \A a \in DailyAlarms :
              /\ a.periodInMinutes = 1440
              /\ LocalHour(a.scheduledTime) = 12
              /\ lastEvent = "install" =>
                    /\ a.scheduledTime > lastInstall.now
                    /\ a.scheduledTime <= lastInstall.now + 24

C6_Witness ==
    /\ lastEvent = "install"
    /\ firstNow < lastInstall.now
    /\ Len(tabs) >= 1
    /\ Cardinality(alarms) = 1

C8_Frame ==
    [][ /\ lastEvent' = "alarm" => (alarms' = alarms /\ rules' = rules)
        /\ lastEvent' = "install" =>
              /\ tabs' = tabs
              /\ OtherAlarmsOf(alarms') = OtherAlarmsOf(alarms)
              /\ OtherRulesOf(rules') = OtherRulesOf(rules) ]_vars

C8_Witness ==
    /\ lastEvent = "install"
    /\ Len(tabs) >= 1
    /\ Len(OtherRulesOf(rules)) = 1
    /\ Cardinality(OtherAlarmsOf(alarms)) = 2
    /\ fired["other"] = 1

CallNames(cs) == [i \in 1..Len(cs) |-> cs[i].api]

C9_CallsOk ==
    /\ lastEvent = "install" =>
          /\ CallNames(calls) \in {<<"alarms.create">>,
                                   <<"alarms.create", "updateDynamicRules">>}
          /\ calls[1].outcome = "throw" => Len(calls) = 1
    /\ lastEvent = "alarm" => CallNames(calls) \in {<< >>, <<"tabs.create">>}

\* C9: an installer run issues alarms.create once and then at most one
\* updateDynamicRules, none when alarms.create threw; a handler run issues
\* at most one tabs.create; a failed call is not repeated and leaves the
\* state it was to change as it was.
C9_NoRetry ==
    [][ /\ C9_CallsOk'
        /\ (lastEvent' = "install" /\ calls'[1].outcome # "ok") => alarms' = alarms
        /\ (lastEvent' = "install" /\ calls'[Len(calls')] # [api |-> "updateDynamicRules", outcome |-> "ok"])
              => rules' = rules
        /\ (lastEvent' = "alarm" /\ calls' # <<[api |-> "tabs.create", outcome |-> "ok"]>>)
              => (tabs' = tabs /\ alarms' = alarms /\ rules' = rules) ]_vars

C9_Witness ==
    /\ lastEvent = "install"
    /\ calls = <<[api |-> "alarms.create", outcome |-> "throw"]>>
    /\ Installed
    /\ Len(FixedRules) = 0

\* C10: the time getNextNoon returns is later than `now` and at most 24
\* hours later, also when the second clock read is later than the first; an
\* alarm registered by the installer never fires at or before `now`.
C10_AfterNowWithinADay ==
    Ran => /\ lastInstall.when > lastInstall.now
           /\ lastInstall.when <= lastInstall.now + 24
           /\ calls[1].outcome = "ok" =>
                 \A a \in DailyAlarms : a.scheduledTime > lastInstall.now

C10_Witness ==
    /\ Ran
    /\ LocalHour(lastInstall.now) = 23
    /\ LocalHour(lastInstall.next) = 0
    /\ lastInstall.when = lastInstall.now + 13

====
